---- MODULE Spec2Model ----
(***************************************************************************)
(* FinFit dashboard (streamlit_app.py): one run of the Streamlit page      *)
(* script over the static client dataset.                                  *)
(*                                                                         *)
(* A data frame is a sequence of rows; a row is a record whose idx field   *)
(* is the pandas index label it keeps through masking, copying and         *)
(* sorting.  Ratios are held in hundredths (Debt_to_Income = 50 is 0.5,    *)
(* Savings_to_Income = 10 is 0.1).  A Python string that the code builds   *)
(* from labels is a sequence of tokens: a label is one token, "," and " "  *)
(* are tokens, "" is the empty sequence.  frame[mask] is SelectSeq:        *)
(* boolean masking keeps the rows that pass, in order.  Columns that are   *)
(* only printed (Financial_Wellness_Score, Happiness_Index,                *)
(* Financial_Personality) and the widgets' rendering calls are left out:   *)
(* they assign nothing.                                                    *)
(***************************************************************************)
EXTENDS Integers, Sequences, FiniteSets, TLC

\* Largest number of rows of the dataset in the batch specification.
MaxRows == 3

\* Largest number of rows of the dataset in the risk-factor specification.
MaxRiskRows == 2

\* Thresholds of the rules, in the units above.
DebtThreshold == 50
SavingsThreshold == 10
StressThreshold == 70
NetWorthThreshold == 0

Roles == {"Coach", "Client", "Admin", "Funder"}
RiskFactorOptions == {"High Debt", "Low Savings", "High Stress"}
Regions == {"Khomas", "Erongo"}
Genders == {"Female", "Male"}
Patterns == {"Saver", "Spender"}
HashVals == {7, 42}
NoDataMsg == "No data available with current filters."

VARIABLES csv, user_mode, df, risk_filter, filtered_df, kpi, risk_factors,
          risk_df, flagged_df, flagged_csv, client_row, insights, tips,
          pdf, message, error, pc

vars == <<csv, user_mode, df, risk_filter, filtered_df, kpi, risk_factors,
          risk_df, flagged_df, flagged_csv, client_row, insights, tips,
          pdf, message, error, pc>>

----------------------------------------------------------------------------
\* Strings as token sequences.

RECURSIVE Join(_, _)
\* sep.join(parts)
Join(sep, parts) ==
    IF Len(parts) = 0 THEN <<>>
    ELSE IF Len(parts) = 1 THEN parts[1]
    ELSE parts[1] \o sep \o Join(sep, Tail(parts))

CommaSpace == <<",", " ">>

\* filter(None, parts): drops the empty strings.
FilterNone(parts) == SelectSeq(parts, LAMBDA s : s # <<>>)

RECURSIVE LStrip(_)
LStrip(s) ==
    IF Len(s) > 0 /\ Head(s) \in {",", " "} THEN LStrip(Tail(s)) ELSE s

RECURSIVE RStrip(_)
RStrip(s) ==
    IF Len(s) > 0 /\ s[Len(s)] \in {",", " "}
    THEN RStrip(SubSeq(s, 1, Len(s) - 1)) ELSE s

\* s.strip(", ")
Strip(s) == RStrip(LStrip(s))

\* The labels a tag string carries.
Labels(s) == {s[k] : k \in DOMAIN s} \ {",", " "}

----------------------------------------------------------------------------
\* The dataset.

ClientIdOf(i) == <<"C", i>>

\* One row with every combination of the rule inputs on and next to the
\* thresholds.
FullRecords(i) ==
    [idx : {i}, Client_ID : {ClientIdOf(i)},
     Region : Regions, Gender : Genders, Spending_Pattern : Patterns,
     Net_Income : {3}, Expenses_Fixed : {1}, Expenses_Variable : {1},
     Expenses_Discretionary : {1, 2},
     Net_Worth : {-1, 0},
     Debt_to_Income : {50, 51},
     Savings_to_Income : {9, 10},
     Financial_Stress_Index : {70, 71}]

\* Rows of a batch: fewer values per column, several rows.
BatchRecords(i) ==
    {r \in [idx : {i}, Client_ID : {ClientIdOf(i)},
            Region : Regions, Gender : {"Female"}, Spending_Pattern : {"Saver"},
            Net_Income : {3}, Expenses_Fixed : {1}, Expenses_Variable : {1},
            Expenses_Discretionary : {2},
            Net_Worth : {0},
            Debt_to_Income : {50, 51},
            Savings_to_Income : {10},
            Financial_Stress_Index : {70, 71, 80}] :
        r.Debt_to_Income = 51 => r.Financial_Stress_Index = 70}

\* The frames of n rows whose i-th row is a full record.
FullFrames(n) ==
    {f \in [1..n -> UNION {FullRecords(i) : i \in 1..n}] :
        \A i \in 1..n : f[i] \in FullRecords(i)}

\* The frames of n rows whose i-th row is a batch record.
BatchFrames(n) ==
    {f \in [1..n -> UNION {BatchRecords(i) : i \in 1..n}] :
        \A i \in 1..n : f[i] \in BatchRecords(i)}

\* Rows that take every combination of the inputs of the rules 2-4.
RiskRecords(i) ==
    [idx : {i}, Client_ID : {ClientIdOf(i)},
     Region : {"Khomas"}, Gender : {"Female"}, Spending_Pattern : {"Saver"},
     Net_Income : {3}, Expenses_Fixed : {1}, Expenses_Variable : {1},
     Expenses_Discretionary : {1},
     Net_Worth : {0},
     Debt_to_Income : {50, 51},
     Savings_to_Income : {9, 10},
     Financial_Stress_Index : {70, 71}]

\* The frames of n rows whose i-th row is a risk record.
RiskFrames(n) ==
    {f \in [1..n -> UNION {RiskRecords(i) : i \in 1..n}] :
        \A i \in 1..n : f[i] \in RiskRecords(i)}

----------------------------------------------------------------------------
\* Data-frame helpers.

\* frame[col].unique()
Unique(frame, col) == {frame[i][col] : i \in DOMAIN frame}

Range(s) == {s[i] : i \in DOMAIN s}

\* df["Total_Expenses"] = fixed + variable + discretionary
WithTotalExpensesNoDiscretionary(row) ==
    [c \in DOMAIN row \cup {"Total_Expenses"} |->
        IF c = "Total_Expenses"
        THEN row.Expenses_Fixed + row.Expenses_Variable
        ELSE row[c]]

WithTotalExpenses(row) ==
    [c \in DOMAIN row \cup {"Total_Expenses"} |->
        IF c = "Total_Expenses"
        THEN row.Expenses_Fixed + row.Expenses_Variable
               + row.Expenses_Discretionary
        ELSE row[c]]

----------------------------------------------------------------------------
\* generate_smart_tips

BudgetAlert == [title |-> "Budget Alert", severity |-> "error"]
HighDebtLoad == [title |-> "High Debt Load", severity |-> "warning"]
LowSavings == [title |-> "Low Savings", severity |-> "info"]
HighStressLevel == [title |-> "High Stress Level", severity |-> "warning"]
OnTrack == [title |-> "On Track!", severity |-> "success"]

\* A priority chain: later rules are skipped once one has fired.
generate_smart_tips_chain(client_data) ==
    IF client_data.Total_Expenses > client_data.Net_Income THEN <<BudgetAlert>>
    ELSE IF client_data.Debt_to_Income > DebtThreshold THEN <<HighDebtLoad>>
    ELSE IF client_data.Savings_to_Income < SavingsThreshold THEN <<LowSavings>>
    ELSE IF client_data.Financial_Stress_Index > StressThreshold
         THEN <<HighStressLevel>>
    ELSE <<OnTrack>>

\* Without the fallback: an empty list when no rule fires.
generate_smart_tips_no_fallback(client_data) ==
    LET t0 == <<>>
        t1 == IF client_data.Total_Expenses > client_data.Net_Income
              THEN Append(t0, BudgetAlert) ELSE t0
        t2 == IF client_data.Debt_to_Income > DebtThreshold
              THEN Append(t1, HighDebtLoad) ELSE t1
        t3 == IF client_data.Savings_to_Income < SavingsThreshold
              THEN Append(t2, LowSavings) ELSE t2
        t4 == IF client_data.Financial_Stress_Index > StressThreshold
              THEN Append(t3, HighStressLevel) ELSE t3
    IN  t4

generate_smart_tips(client_data) ==
    LET t0 == <<>>
        t1 == IF client_data.Total_Expenses > client_data.Net_Income
              THEN Append(t0, BudgetAlert) ELSE t0
        t2 == IF client_data.Debt_to_Income > DebtThreshold
              THEN Append(t1, HighDebtLoad) ELSE t1
        t3 == IF client_data.Savings_to_Income < SavingsThreshold
              THEN Append(t2, LowSavings) ELSE t2
        t4 == IF client_data.Financial_Stress_Index > StressThreshold
              THEN Append(t3, HighStressLevel) ELSE t3
    IN  IF t4 = <<>> THEN Append(t4, OnTrack) ELSE t4

----------------------------------------------------------------------------
\* Risk_Tags of the flagged-clients section.

\* The row lambda with inclusive comparisons.
RiskTagsRowInclusive(x) ==
    Join(CommaSpace, FilterNone(<<
        IF x.Debt_to_Income >= DebtThreshold THEN <<"High Debt">> ELSE <<>>,
        IF x.Savings_to_Income <= SavingsThreshold THEN <<"Low Savings">> ELSE <<>>,
        IF x.Financial_Stress_Index >= StressThreshold THEN <<"High Stress">> ELSE <<>>,
        IF x.Net_Worth <= NetWorthThreshold THEN <<"Negative Worth">> ELSE <<>> >>))

\* The row lambda without the net-worth entry.
RiskTagsRowNoWorth(x) ==
    Join(CommaSpace, FilterNone(<<
        IF x.Debt_to_Income > DebtThreshold THEN <<"High Debt">> ELSE <<>>,
        IF x.Savings_to_Income < SavingsThreshold THEN <<"Low Savings">> ELSE <<>>,
        IF x.Financial_Stress_Index > StressThreshold THEN <<"High Stress">> ELSE <<>> >>))

\* The row lambda with an entry for rule 1 as well.
RiskTagsRowBudget(x) ==
    Join(CommaSpace, FilterNone(<<
        IF x.Total_Expenses > x.Net_Income THEN <<"Over Budget">> ELSE <<>>,
        IF x.Debt_to_Income > DebtThreshold THEN <<"High Debt">> ELSE <<>>,
        IF x.Savings_to_Income < SavingsThreshold THEN <<"Low Savings">> ELSE <<>>,
        IF x.Financial_Stress_Index > StressThreshold THEN <<"High Stress">> ELSE <<>>,
        IF x.Net_Worth < NetWorthThreshold THEN <<"Negative Worth">> ELSE <<>> >>))

\* lambda x: ", ".join(filter(None, [...]))
RiskTagsRow(x) ==
    Join(CommaSpace, FilterNone(<<
        IF x.Debt_to_Income > DebtThreshold THEN <<"High Debt">> ELSE <<>>,
        IF x.Savings_to_Income < SavingsThreshold THEN <<"Low Savings">> ELSE <<>>,
        IF x.Financial_Stress_Index > StressThreshold THEN <<"High Stress">> ELSE <<>>,
        IF x.Net_Worth < NetWorthThreshold THEN <<"Negative Worth">> ELSE <<>> >>))

WithColumn(row, col, val) ==
    [c \in DOMAIN row \cup {col} |-> IF c = col THEN val ELSE row[c]]

\* The tags of a row also carry the tags of the rows before it (one list
\* shared by the rows instead of one per row).
AddRiskTagsShared(frame) ==
    [i \in DOMAIN frame |->
        WithColumn(frame[i], "Risk_Tags",
            Join(CommaSpace,
                 FilterNone([k \in 1..i |-> RiskTagsRow(frame[k])])))]

\* risk_df["Risk_Tags"] = risk_df.apply(lambda x: ..., axis=1)
AddRiskTags(frame) ==
    [i \in DOMAIN frame |->
        WithColumn(frame[i], "Risk_Tags", RiskTagsRow(frame[i]))]

\* risk_df = filtered_df (no copy): the new column lands in filtered_df too.
RiskDfAssignAlias(frame) ==
    [filtered |-> AddRiskTags(frame), risk |-> AddRiskTags(frame)]

\* risk_df = filtered_df.copy(); risk_df["Risk_Tags"] = ...
\* The two frames after the two statements.
RiskDfAssign(frame) ==
    [filtered |-> frame, risk |-> AddRiskTags(frame)]

FlaggedColumns ==
    {"idx", "Client_ID", "Region", "Debt_to_Income", "Savings_to_Income",
     "Financial_Stress_Index", "Risk_Tags"}

\* frame[[columns]]
Project(frame, cols) ==
    [i \in DOMAIN frame |-> [c \in cols |-> frame[i][c]]]

RECURSIVE InsertAsc(_, _)
\* Insertion for the ascending order (used by sort_values_ascending only).
InsertAsc(sorted, row) ==
    IF sorted = <<>> THEN <<row>>
    ELSE IF Head(sorted).Financial_Stress_Index
              <= row.Financial_Stress_Index
         THEN <<Head(sorted)>> \o InsertAsc(Tail(sorted), row)
         ELSE <<row>> \o sorted

RECURSIVE InsertDesc(_, _)
\* Places row after the rows of sorted whose stress index is not smaller.
InsertDesc(sorted, row) ==
    IF sorted = <<>> THEN <<row>>
    ELSE IF Head(sorted).Financial_Stress_Index
              >= row.Financial_Stress_Index
         THEN <<Head(sorted)>> \o InsertDesc(Tail(sorted), row)
         ELSE <<row>> \o sorted

RECURSIVE SortAsc(_)
SortAsc(frame) ==
    IF frame = <<>> THEN <<>>
    ELSE InsertAsc(SortAsc(SubSeq(frame, 1, Len(frame) - 1)),
                   frame[Len(frame)])

RECURSIVE SortDesc(_)
SortDesc(frame) ==
    IF frame = <<>> THEN <<>>
    ELSE InsertDesc(SortDesc(SubSeq(frame, 1, Len(frame) - 1)),
                    frame[Len(frame)])

\* sort_values("Financial_Stress_Index") with the default ascending order.
sort_values_ascending(frame, order) ==
    SortAsc([i \in DOMAIN frame |-> frame[order[i]]])

\* sort_values("Financial_Stress_Index", ascending=False).  The default
\* sort kind is not stable: order is the order in which the algorithm
\* meets the rows, any permutation, so rows of equal stress index may come
\* out in any order.
sort_values(frame, order) ==
    SortDesc([i \in DOMAIN frame |-> frame[order[i]]])

\* risk_df[risk_df["Risk_Tags"] != ""][[columns]]
FlaggedRows(frame) ==
    Project(SelectSeq(frame, LAMBDA r : r.Risk_Tags # <<>>), FlaggedColumns)

\* Coach table: ", ".join([...]).strip(", ")
RiskFactorsRow(x) ==
    Strip(Join(CommaSpace, <<
        IF x.Debt_to_Income > DebtThreshold THEN <<"High Debt">> ELSE <<>>,
        IF x.Savings_to_Income < SavingsThreshold THEN <<"Low Savings">> ELSE <<>>,
        IF x.Financial_Stress_Index > StressThreshold THEN <<"High Stress">> ELSE <<>> >>))

\* risk_df["Risk Factors"] = risk_df.apply(lambda x: ..., axis=1)
AddRiskFactors(frame) ==
    [i \in DOMAIN frame |->
        WithColumn(frame[i], "Risk_Factors", RiskFactorsRow(frame[i]))]

\* The three-way test of the Coach KPI.
HighRisk(r) ==
    \/ r.Debt_to_Income > DebtThreshold
    \/ r.Savings_to_Income < SavingsThreshold
    \/ r.Financial_Stress_Index > StressThreshold

----------------------------------------------------------------------------
\* The page run.

NoKpi == [total_clients |-> 0, high_risk_clients |-> 0, risk_rate |-> 0]

\* What every run starts from, given the rows of dummy_finfit_data.csv.
StartOfRun(rows) ==
    /\ csv = rows
    /\ user_mode = "Coach"
    /\ df = <<>>
    /\ risk_filter = {}
    /\ filtered_df = <<>>
    /\ kpi = NoKpi
    /\ risk_factors = <<>>
    /\ risk_df = <<>>
    /\ flagged_df = <<>>
    /\ flagged_csv = <<>>
    /\ client_row = <<>>
    /\ insights = <<>>
    /\ tips = <<>>
    /\ pdf = <<>>
    /\ message = <<>>
    /\ error = "none"
    /\ pc = "role"

\* One client, every combination of rule inputs.
Init == \E rows \in FullFrames(1) : StartOfRun(rows)

\* A batch of one to MaxRows clients.
InitBatch ==
    \E n \in 1..MaxRows : \E rows \in BatchFrames(n) : StartOfRun(rows)

\* One to MaxRiskRows clients over the inputs of the rules 2-4.
InitRisk ==
    \E n \in 1..MaxRiskRows : \E rows \in RiskFrames(n) : StartOfRun(rows)

\* user_mode = st.sidebar.selectbox("Select Role", ...)
SelectRole ==
    /\ pc = "role"
    /\ \E role \in Roles : user_mode' = role
    /\ pc' = "load"
    /\ UNCHANGED <<csv, df, risk_filter, filtered_df, kpi, risk_factors,
                   risk_df, flagged_df, flagged_csv, client_row, insights,
                   tips, pdf, message, error>>

\* df, has_time_series = load_data(); df["Total_Expenses"] = ...
\* has_time_series is False, so the month filter is skipped.
LoadData ==
    /\ pc = "load"
    /\ df' = [i \in DOMAIN csv |-> WithTotalExpenses(csv[i])]
    /\ pc' = "filters"
    /\ UNCHANGED <<csv, user_mode, risk_filter, filtered_df, kpi,
                   risk_factors, risk_df, flagged_df, flagged_csv,
                   client_row, insights, tips, pdf, message, error>>

\* The selected factors combined by OR: a row passes with any one of them.
ApplyRiskFiltersAny(frame, rf) ==
    IF rf = {} THEN frame
    ELSE SelectSeq(frame,
           LAMBDA r : \/ "High Debt" \in rf /\ r.Debt_to_Income > DebtThreshold
                      \/ "Low Savings" \in rf
                           /\ r.Savings_to_Income < SavingsThreshold
                      \/ "High Stress" \in rf
                           /\ r.Financial_Stress_Index > StressThreshold)

\* The risk masks of the Coach sidebar, applied one after the other.
ApplyRiskFilters(frame, rf) ==
    LET f1 == IF "High Debt" \in rf
              THEN SelectSeq(frame, LAMBDA r : r.Debt_to_Income > DebtThreshold)
              ELSE frame
        f2 == IF "Low Savings" \in rf
              THEN SelectSeq(f1, LAMBDA r : r.Savings_to_Income < SavingsThreshold)
              ELSE f1
        f3 == IF "High Stress" \in rf
              THEN SelectSeq(f2, LAMBDA r : r.Financial_Stress_Index > StressThreshold)
              ELSE f2
    IN  f3

CoachFilters ==
    /\ pc = "filters"
    /\ user_mode = "Coach"
    /\ \E rf \in SUBSET RiskFactorOptions,
          gender_filter \in SUBSET Unique(df, "Gender"),
          region_filter \in SUBSET Unique(df, "Region"),
          pattern_filter \in SUBSET Unique(df, "Spending_Pattern") :
            /\ risk_filter' = rf
            /\ filtered_df' =
                 ApplyRiskFilters(
                     SelectSeq(df, LAMBDA r : /\ r.Region \in region_filter
                                         /\ r.Spending_Pattern \in pattern_filter
                                         /\ r.Gender \in gender_filter),
                     rf)
    /\ pc' = "kpis"
    /\ UNCHANGED <<csv, user_mode, df, kpi, risk_factors, risk_df,
                   flagged_df, flagged_csv, client_row, insights, tips,
                   pdf, message, error>>

ClientFilters ==
    /\ pc = "filters"
    /\ user_mode = "Client"
    /\ \E client_login \in Unique(df, "Client_ID") :
          filtered_df' = SelectSeq(df, LAMBDA r : r.Client_ID = client_login)
    /\ pc' = "kpis"
    /\ UNCHANGED <<csv, user_mode, df, risk_filter, kpi, risk_factors,
                   risk_df, flagged_df, flagged_csv, client_row, insights,
                   tips, pdf, message, error>>

AdminFilters ==
    /\ pc = "filters"
    /\ user_mode = "Admin"
    /\ \E gender_filter \in SUBSET Unique(df, "Gender"),
          region_filter \in SUBSET Unique(df, "Region") :
            filtered_df' = SelectSeq(df, LAMBDA r : /\ r.Region \in region_filter
                                               /\ r.Gender \in gender_filter)
    /\ pc' = "kpis"
    /\ UNCHANGED <<csv, user_mode, df, risk_filter, kpi, risk_factors,
                   risk_df, flagged_df, flagged_csv, client_row, insights,
                   tips, pdf, message, error>>

\* Client_ID -> f"Client_{hash(x) % 1000:03d}"; hash is any function of x.
Anonymize(frame, h) ==
    [i \in DOMAIN frame |->
        [frame[i] EXCEPT !.Client_ID = <<"Client_", h[frame[i].Client_ID]>>]]

FunderFilters ==
    /\ pc = "filters"
    /\ user_mode = "Funder"
    /\ \E gender_filter \in SUBSET Unique(df, "Gender"),
          region_filter \in SUBSET Unique(df, "Region") :
          LET masked == SelectSeq(df, LAMBDA r : /\ r.Region \in region_filter
                                            /\ r.Gender \in gender_filter)
          IN  \E h \in [Unique(masked, "Client_ID") -> HashVals] :
                 filtered_df' = Anonymize(masked, h)
    /\ pc' = "kpis"
    /\ UNCHANGED <<csv, user_mode, df, risk_filter, kpi, risk_factors,
                   risk_df, flagged_df, flagged_csv, client_row, insights,
                   tips, pdf, message, error>>

\* f"{(high/total*100):.1f}" in tenths of a percent, rounded to nearest.
RiskRate(high, total) == (high * 2000 + total) \div (2 * total)

\* Coach KPIs and the Coach "Risk Factors" table.  high/total raises
\* ZeroDivisionError when total_clients is 0.
CoachKPIs ==
    /\ pc = "kpis"
    /\ user_mode = "Coach"
    /\ LET total_clients == Len(filtered_df)
           high_risk_clients == Len(SelectSeq(filtered_df, HighRisk))
       IN  IF total_clients = 0
           THEN /\ kpi' = [total_clients |-> total_clients,
                           high_risk_clients |-> high_risk_clients,
                           risk_rate |-> 0]
                /\ error' = "ZeroDivisionError"
                /\ pc' = "crashed"
                /\ UNCHANGED <<risk_factors, risk_df>>
           ELSE /\ kpi' = [total_clients |-> total_clients,
                           high_risk_clients |-> high_risk_clients,
                           risk_rate |-> RiskRate(high_risk_clients,
                                                  total_clients)]
                /\ IF high_risk_clients > 0
                   THEN /\ risk_df' = AddRiskFactors(filtered_df)
                        /\ risk_factors' =
                             Project(SelectSeq(risk_df',
                                          LAMBDA r : r.Risk_Factors # <<>>),
                                     {"idx", "Client_ID", "Risk_Factors"})
                   ELSE UNCHANGED <<risk_factors, risk_df>>
                /\ pc' = "flagged"
                /\ UNCHANGED error
    /\ UNCHANGED <<csv, user_mode, df, risk_filter, filtered_df,
                   flagged_df, flagged_csv, client_row, insights, tips,
                   pdf, message>>

\* client_data = filtered_df.iloc[0] raises IndexError on an empty frame.
ClientKPIs ==
    /\ pc = "kpis"
    /\ user_mode = "Client"
    /\ IF filtered_df = <<>>
       THEN error' = "IndexError" /\ pc' = "crashed"
       ELSE error' = error /\ pc' = "flagged"
    /\ UNCHANGED <<csv, user_mode, df, risk_filter, filtered_df, kpi,
                   risk_factors, risk_df, flagged_df, flagged_csv,
                   client_row, insights, tips, pdf, message>>

\* Admin: "High Risk Clients" counts stress index > 70 only; the means of
\* an empty frame are NaN and print as "nan".
AdminKPIs ==
    /\ pc = "kpis"
    /\ user_mode = "Admin"
    /\ kpi' = [total_clients |-> Len(filtered_df),
               high_risk_clients |->
                   Len(SelectSeq(filtered_df,
                        LAMBDA r : r.Financial_Stress_Index > StressThreshold)),
               risk_rate |-> 0]
    /\ pc' = "flagged"
    /\ UNCHANGED <<csv, user_mode, df, risk_filter, filtered_df,
                   risk_factors, risk_df, flagged_df, flagged_csv,
                   client_row, insights, tips, pdf, message, error>>

FunderKPIs ==
    /\ pc = "kpis"
    /\ user_mode = "Funder"
    /\ kpi' = [total_clients |-> Len(filtered_df),
               high_risk_clients |-> 0, risk_rate |-> 0]
    /\ pc' = "flagged"
    /\ UNCHANGED <<csv, user_mode, df, risk_filter, filtered_df,
                   risk_factors, risk_df, flagged_df, flagged_csv,
                   client_row, insights, tips, pdf, message, error>>

\* The flagged-clients section of the Coach and Admin views.  On an empty
\* frame apply(axis=1) returns a frame, not a column; whether assigning it
\* to one column raises ValueError depends on the pandas release.
FlaggedClients ==
    /\ pc = "flagged"
    /\ IF user_mode \in {"Coach", "Admin"}
       THEN \E raises \in (IF filtered_df = <<>> THEN BOOLEAN ELSE {FALSE}) :
            IF raises
            THEN /\ error' = "ValueError"
                 /\ pc' = "crashed"
                 /\ UNCHANGED <<filtered_df, risk_df, flagged_df,
                                flagged_csv, message>>
            ELSE LET frames == RiskDfAssign(filtered_df)
                     rows == FlaggedRows(frames.risk)
                 IN  /\ filtered_df' = frames.filtered
                     /\ risk_df' = frames.risk
                     /\ \E order \in Permutations(DOMAIN rows) :
                           flagged_df' = sort_values(rows, order)
                     /\ IF flagged_df' # <<>>
                        THEN /\ \E clicked \in BOOLEAN :
                                  flagged_csv' = IF clicked THEN flagged_df'
                                                 ELSE flagged_csv
                             /\ UNCHANGED message
                        ELSE /\ message' = Append(message, "No clients currently flagged")
                             /\ UNCHANGED flagged_csv
                     /\ pc' = "charts"
                     /\ UNCHANGED error
       ELSE /\ pc' = "charts"
            /\ UNCHANGED <<filtered_df, risk_df, flagged_df, flagged_csv,
                           message, error>>
    /\ UNCHANGED <<csv, user_mode, df, risk_filter, kpi, risk_factors,
                   client_row, insights, tips, pdf>>

\* "View Raw Data" and the scatter plot read filtered_df and assign nothing.
Charts ==
    /\ pc = "charts"
    /\ pc' = "scorecard"
    /\ UNCHANGED <<csv, user_mode, df, risk_filter, filtered_df, kpi,
                   risk_factors, risk_df, flagged_df, flagged_csv,
                   client_row, insights, tips, pdf, message, error>>

\* The insights list of the scorecard.
Insights(row) ==
    LET i1 == IF row.Total_Expenses > row.Net_Income
              THEN <<"Spending exceeds income.">> ELSE <<>>
        i2 == IF row.Debt_to_Income > DebtThreshold
              THEN Append(i1, "High debt-to-income ratio.") ELSE i1
        i3 == IF row.Savings_to_Income < SavingsThreshold
              THEN Append(i2, "Low savings rate.") ELSE i2
        i4 == IF row.Financial_Stress_Index > StressThreshold
              THEN Append(i3, "High financial stress.") ELSE i3
    IN  i4

\* generate_pdf: the figures and the tips the report prints.
generate_pdf(row) ==
    [Client_ID |-> row.Client_ID,
     Net_Income |-> row.Net_Income,
     Total_Expenses |-> row.Total_Expenses,
     tips |-> generate_smart_tips(row)]

\* The client scorecard, or the "no data" message on an empty frame.
ClientScorecard ==
    /\ pc = "scorecard"
    /\ IF filtered_df # <<>>
       THEN /\ \E client_id \in Unique(filtered_df, "Client_ID") :
                 client_row' =
                    <<SelectSeq(filtered_df, LAMBDA r : r.Client_ID = client_id)[1]>>
            /\ insights' = Insights(client_row'[1])
            /\ tips' = generate_smart_tips(client_row'[1])
            /\ \E clicked \in BOOLEAN :
                 pdf' = IF clicked THEN <<generate_pdf(client_row'[1])>> ELSE pdf
            /\ UNCHANGED message
       ELSE /\ message' = Append(message, NoDataMsg)
            /\ UNCHANGED <<client_row, insights, tips, pdf>>
    /\ pc' = "done"
    /\ UNCHANGED <<csv, user_mode, df, risk_filter, filtered_df, kpi,
                   risk_factors, risk_df, flagged_df, flagged_csv, error>>

Next ==
    \/ SelectRole
    \/ LoadData
    \/ CoachFilters
    \/ ClientFilters
    \/ AdminFilters
    \/ FunderFilters
    \/ CoachKPIs
    \/ ClientKPIs
    \/ AdminKPIs
    \/ FunderKPIs
    \/ FlaggedClients
    \/ Charts
    \/ ClientScorecard

Spec == Init /\ [][Next]_vars

SpecBatch == InitBatch /\ [][Next]_vars

SpecRisk == InitRisk /\ [][Next]_vars

----------------------------------------------------------------------------
\* Properties.  Thresholds are written out in the units of the model:
\* 0.5 is 50, 0.1 is 10.

\* Risk_Tags has been computed and the flagged listing built.
TagsComputed ==
    /\ user_mode \in {"Coach", "Admin"}
    /\ pc \in {"charts", "scorecard", "done"}

\* The scorecard has shown the tips of the selected client.
TipsShown == pc = "done" /\ client_row # <<>>

Rule(k, r) ==
    CASE k = 1 -> r.Total_Expenses > r.Net_Income
      [] k = 2 -> r.Debt_to_Income > 50
      [] k = 3 -> r.Savings_to_Income < 10
      [] k = 4 -> r.Financial_Stress_Index > 70
      [] k = 5 -> r.Net_Worth < 0

FindingOfRule(k) ==
    CASE k = 1 -> [title |-> "Budget Alert", severity |-> "error"]
      [] k = 2 -> [title |-> "High Debt Load", severity |-> "warning"]
      [] k = 3 -> [title |-> "Low Savings", severity |-> "info"]
      [] k = 4 -> [title |-> "High Stress Level", severity |-> "warning"]

LabelOfRule(k) ==
    CASE k = 2 -> "High Debt"
      [] k = 3 -> "Low Savings"
      [] k = 4 -> "High Stress"
      [] k = 5 -> "Negative Worth"

OnTrackFinding == [title |-> "On Track!", severity |-> "success"]

\* The findings of the rules 1-4 that fire on r, in the order 1,2,3,4.
FiredFindings(r) ==
    LET fired == SelectSeq(<<1, 2, 3, 4>>, LAMBDA k : Rule(k, r))
    IN  [i \in 1..Len(fired) |-> FindingOfRule(fired[i])]

FlaggedIdx == {flagged_df[i].idx : i \in DOMAIN flagged_df}

\* C1: the rule findings among the tips of a client are exactly the
\* findings of the rules 1-4 that fire on the client's record, each once, in
\* the order 1,2,3,4, whichever other rules fire; the report prints the same.
C1_FindingsAreFiredRulesInOrder ==
    TipsShown =>
        /\ SelectSeq(tips, LAMBDA t : t # OnTrackFinding)
             = FiredFindings(client_row[1])
        /\ \A i \in DOMAIN pdf :
             SelectSeq(pdf[i].tips, LAMBDA t : t # OnTrackFinding)
               = FiredFindings(client_row[1])

C1_Witness ==
    /\ TipsShown
    /\ \A k \in 1..4 : Rule(k, client_row[1])
    /\ Len(tips) = 4

\* No rule fires on r and its net worth is not negative.
AllClear(r) ==
    /\ r.Total_Expenses <= r.Net_Income
    /\ r.Debt_to_Income <= 50
    /\ r.Savings_to_Income >= 10
    /\ r.Financial_Stress_Index <= 70
    /\ r.Net_Worth >= 0

\* C2: a record on which no rule fires and whose net worth is not negative
\* gets exactly the one on-track finding of severity success, an empty
\* Risk_Tags and no row in the flagged listing.
C2_AllClearIsOnTrackAndUnflagged ==
    /\ TipsShown /\ AllClear(client_row[1]) => tips = <<OnTrackFinding>>
    /\ TagsComputed =>
         \A i \in DOMAIN risk_df :
            AllClear(risk_df[i]) =>
               /\ risk_df[i].Risk_Tags = <<>>
               /\ risk_df[i].idx \notin FlaggedIdx

C2_Witness ==
    /\ TipsShown
    /\ TagsComputed
    /\ AllClear(client_row[1])
    /\ \E i \in DOMAIN risk_df : risk_df[i].idx = client_row[1].idx

\* C3: a record is in the flagged listing iff one of the rules 2-5 fires on
\* it, and its Risk_Tags carries exactly the labels of the rules 2-5 that
\* fire; rule 1 alone gives a finding and no flag.
C3_FlaggedIffRules2To5 ==
    TagsComputed =>
        \A i \in DOMAIN risk_df :
            /\ Labels(risk_df[i].Risk_Tags)
                 = {LabelOfRule(k) : k \in {j \in 2..5 : Rule(j, risk_df[i])}}
            /\ risk_df[i].idx \in FlaggedIdx
                 <=> \E k \in 2..5 : Rule(k, risk_df[i])
            /\ risk_df[i].Risk_Tags # <<>>
                 <=> \E k \in 2..5 : Rule(k, risk_df[i])

C3_Witness ==
    /\ TagsComputed
    /\ TipsShown
    /\ Rule(1, client_row[1])
    /\ \A k \in 2..5 : ~Rule(k, client_row[1])
    /\ tips = <<FindingOfRule(1)>>
    /\ Len(risk_df) = 1
    /\ flagged_df = <<>>

\* C4: the comparisons are strict: on the threshold itself (debt ratio 0.5,
\* savings ratio 0.1, stress index 70, expenses equal to income, net worth
\* 0) a record gets neither the finding nor the tag of that rule.
C4_BoundaryValuesDoNotTrigger ==
    /\ TipsShown =>
         LET r == client_row[1]
             found == {tips[i] : i \in DOMAIN tips}
         IN  /\ r.Total_Expenses = r.Net_Income => FindingOfRule(1) \notin found
             /\ r.Debt_to_Income = 50 => FindingOfRule(2) \notin found
             /\ r.Savings_to_Income = 10 => FindingOfRule(3) \notin found
             /\ r.Financial_Stress_Index = 70 => FindingOfRule(4) \notin found
    /\ TagsComputed =>
         \A i \in DOMAIN risk_df :
            LET r == risk_df[i]
            IN  /\ r.Debt_to_Income = 50 => "High Debt" \notin Labels(r.Risk_Tags)
                /\ r.Savings_to_Income = 10
                     => "Low Savings" \notin Labels(r.Risk_Tags)
                /\ r.Financial_Stress_Index = 70
                     => "High Stress" \notin Labels(r.Risk_Tags)
                /\ r.Net_Worth = 0
                     => "Negative Worth" \notin Labels(r.Risk_Tags)

C4_Witness ==
    /\ TipsShown
    /\ TagsComputed
    /\ LET r == client_row[1]
       IN  /\ r.Total_Expenses = r.Net_Income
           /\ r.Debt_to_Income = 50
           /\ r.Savings_to_Income = 10
           /\ r.Financial_Stress_Index = 70
           /\ r.Net_Worth = 0
    /\ Len(risk_df) = 1

\* C5: negative net worth gives the "Negative Worth" tag and never a
\* finding: with none of the rules 1-4 firing the tips are the one on-track
\* finding while the record is tagged {Negative Worth} and flagged; the
\* on-track finding is there iff none of the rules 1-4 fires, whatever the
\* net worth, and then it is the only finding.
C5_NegativeWorthTagsWithoutFinding ==
    /\ TipsShown =>
         LET r == client_row[1]
             clear == \A k \in 1..4 : ~Rule(k, r)
         IN  /\ (\E i \in DOMAIN tips : tips[i] = OnTrackFinding) <=> clear
             /\ (\E i \in DOMAIN tips : tips[i] = OnTrackFinding)
                  => Len(tips) = 1
             /\ Len(tips) <= 4
    /\ TagsComputed =>
         \A i \in DOMAIN risk_df :
            LET r == risk_df[i]
            IN  /\ r.Net_Worth < 0 => "Negative Worth" \in Labels(r.Risk_Tags)
                /\ (r.Net_Worth < 0 /\ \A k \in 1..4 : ~Rule(k, r)) =>
                      /\ Labels(r.Risk_Tags) = {"Negative Worth"}
                      /\ r.idx \in FlaggedIdx

C5_Witness ==
    /\ TipsShown
    /\ TagsComputed
    /\ client_row[1].Net_Worth < 0
    /\ \A k \in 1..4 : ~Rule(k, client_row[1])
    /\ tips = <<OnTrackFinding>>
    /\ client_row[1].idx \in FlaggedIdx

Stress(frame) == [i \in DOMAIN frame |-> frame[i].Financial_Stress_Index]

\* C6: the flagged listing holds exactly the rows of the filtered set whose
\* Risk_Tags is not empty, each once and with its own values, ordered by
\* stress index, largest first.
C6_FlaggedListingExactAndSorted ==
    TagsComputed =>
        /\ Len(risk_df) = Len(filtered_df)
        /\ \A i \in DOMAIN filtered_df :
              /\ risk_df[i].idx = filtered_df[i].idx
              /\ filtered_df[i].idx \in FlaggedIdx
                   <=> risk_df[i].Risk_Tags # <<>>
        /\ \A k \in DOMAIN flagged_df :
              \E i \in DOMAIN risk_df :
                 \A c \in DOMAIN flagged_df[k] :
                    flagged_df[k][c] = risk_df[i][c]
        /\ Cardinality(FlaggedIdx) = Len(flagged_df)
        /\ \A k \in 1..(Len(flagged_df) - 1) :
              Stress(flagged_df)[k] >= Stress(flagged_df)[k + 1]

C6_Witness ==
    /\ TagsComputed
    /\ Len(filtered_df) = 3
    /\ Len(flagged_df) = 2
    /\ flagged_df[1].idx > flagged_df[2].idx
    /\ Stress(flagged_df)[1] > Stress(flagged_df)[2]

\* C7: the classification changes nothing it reads: once the filters are
\* applied no later step changes filtered_df or df (the tag column goes to
\* the copy only), the record passed to generate_smart_tips is still the
\* row of filtered_df, and the tips of the report's call equal the tips of
\* the scorecard's call on the same record.
C7_ClassifyLeavesInputsAlone ==
    [][ /\ pc \notin {"role", "load", "filters"} =>
             (filtered_df' = filtered_df /\ df' = df)
        /\ (pc' = "done" /\ client_row' # <<>>) =>
             /\ client_row'[1] \in Range(filtered_df')
             /\ \A i \in DOMAIN pdf' : pdf'[i].tips = tips'
        /\ pc' \in {"charts", "scorecard", "done"} =>
             \A i \in DOMAIN filtered_df' :
                "Risk_Tags" \notin DOMAIN filtered_df'[i]
      ]_vars

C7_Witness ==
    /\ TagsComputed
    /\ TipsShown
    /\ pdf # <<>>
    /\ Len(filtered_df) >= 2
    /\ flagged_df # <<>>

\* The columns of a record the rules read.
RuleInputs(r) ==
    <<r.Total_Expenses, r.Net_Income, r.Debt_to_Income, r.Savings_to_Income,
      r.Financial_Stress_Index, r.Net_Worth>>

\* C8: what is computed for a record depends on that record alone: its
\* Risk_Tags and its place in the flagged listing in the batch are those it
\* gets as a batch of its own, two records of equal values in a batch get
\* equal tags, and the tips shown for a record of the filtered set are
\* those of the same record of the whole dataset.
C8_ResultIndependentOfBatch ==
    /\ TagsComputed =>
         /\ \A i \in DOMAIN risk_df :
               LET alone == AddRiskTags(<<filtered_df[i]>>)[1]
               IN  /\ risk_df[i].Risk_Tags = alone.Risk_Tags
                   /\ risk_df[i].idx \in FlaggedIdx
                        <=> FlaggedRows(<<alone>>) # <<>>
         /\ \A i, j \in DOMAIN risk_df :
               RuleInputs(risk_df[i]) = RuleInputs(risk_df[j])
                  => risk_df[i].Risk_Tags = risk_df[j].Risk_Tags
    /\ TipsShown =>
         \A i \in DOMAIN df :
            df[i].idx = client_row[1].idx
               => tips = generate_smart_tips(df[i])

C8_Witness ==
    /\ TagsComputed
    /\ TipsShown
    /\ Len(risk_df) = 3
    /\ RuleInputs(risk_df[1]) = RuleInputs(risk_df[2])
    /\ risk_df[1].Risk_Tags # <<>>
    /\ risk_df[3].Risk_Tags # risk_df[1].Risk_Tags
    /\ Len(df) = 3

ExpensesAddUp(r) ==
    r.Total_Expenses
      = r.Expenses_Fixed + r.Expenses_Variable + r.Expenses_Discretionary

\* C9: wherever a record is read after loading (the frames df, filtered_df
\* and risk_df, the scorecard's row, the report), its Total_Expenses is the
\* sum of its three expense columns.
C9_TotalExpensesIsSumOfComponents ==
    /\ \A i \in DOMAIN df : ExpensesAddUp(df[i])
    /\ \A i \in DOMAIN filtered_df : ExpensesAddUp(filtered_df[i])
    /\ \A i \in DOMAIN risk_df : ExpensesAddUp(risk_df[i])
    /\ \A i \in DOMAIN client_row : ExpensesAddUp(client_row[i])
    /\ \A i \in DOMAIN pdf :
          /\ client_row # <<>>
          /\ pdf[i].Total_Expenses
               = client_row[1].Expenses_Fixed
                   + client_row[1].Expenses_Variable
                   + client_row[1].Expenses_Discretionary

C9_Witness ==
    /\ user_mode = "Funder"
    /\ TipsShown
    /\ pdf # <<>>
    /\ Len(df) = 3
    /\ Len(filtered_df) = 2
    /\ client_row[1].Client_ID[1] = "Client_"

\* C10: in every role a run whose filters leave no record raises nothing
\* and ends at the "No data available with current filters." message.
C10_EmptyFilterEndsAtNoData ==
    (pc \in {"done", "crashed"} /\ filtered_df = <<>>) =>
        /\ error = "none"
        /\ pc = "done"
        /\ \E i \in DOMAIN message : message[i] = NoDataMsg

\* The Coach KPIs have been computed (the run may have stopped there).
CoachKpisDone ==
    /\ user_mode = "Coach"
    /\ pc \in {"flagged", "charts", "scorecard", "done", "crashed"}

\* The row of frame with index label i, as a sequence of at most one row.
RowOf(frame, i) == SelectSeq(frame, LAMBDA r : r.idx = i)

\* C11: the four implementations of the rules 2-4 agree on every record:
\* the label is in Risk_Tags iff the finding is among the tips, iff the
\* record passes the Coach risk filter for that label, iff the label is in
\* the Coach "Risk Factors" column; so every record of a Coach's filtered
\* set carries every selected factor, and the Coach "High Risk Clients" KPI
\* counts the records with at least one of the three tags.
C11_RuleImplementationsAgree ==
    /\ TagsComputed =>
         \A i \in DOMAIN risk_df : \A k \in 2..4 :
            LET tagged == LabelOfRule(k) \in Labels(risk_df[i].Risk_Tags)
            IN  /\ tagged <=> Rule(k, risk_df[i])
                /\ tagged <=>
                     ApplyRiskFilters(<<filtered_df[i]>>, {LabelOfRule(k)}) # <<>>
                /\ (TipsShown /\ client_row[1].idx = risk_df[i].idx) =>
                     (tagged <=> \E t \in DOMAIN tips : tips[t] = FindingOfRule(k))
                /\ user_mode = "Coach" =>
                     (tagged <=>
                        \E j \in DOMAIN risk_factors :
                           /\ risk_factors[j].idx = risk_df[i].idx
                           /\ LabelOfRule(k) \in Labels(risk_factors[j].Risk_Factors))
                /\ user_mode = "Coach" =>
                     (LabelOfRule(k) \in risk_filter => tagged)
    /\ (user_mode = "Coach" /\ pc = "flagged" /\ kpi.high_risk_clients > 0) =>
         \A i \in DOMAIN risk_df : \A k \in 2..4 :
            LabelOfRule(k) \in Labels(risk_df[i].Risk_Factors)
               <=> Rule(k, risk_df[i])
    /\ CoachKpisDone =>
         /\ \A i \in DOMAIN filtered_df : \A k \in 2..4 :
               LabelOfRule(k) \in risk_filter => Rule(k, filtered_df[i])
         /\ \A i \in DOMAIN df : \A j \in DOMAIN filtered_df :
               ( /\ df[i].Region = filtered_df[j].Region
                 /\ df[i].Gender = filtered_df[j].Gender
                 /\ df[i].Spending_Pattern = filtered_df[j].Spending_Pattern
                 /\ \A k \in 2..4 :
                       LabelOfRule(k) \in risk_filter => Rule(k, df[i]) )
                  => RowOf(filtered_df, df[i].idx) = <<df[i]>>
         /\ kpi.total_clients = Len(filtered_df)
         /\ kpi.high_risk_clients =
              Cardinality({i \in DOMAIN filtered_df :
                             \E k \in 2..4 : Rule(k, filtered_df[i])})
    /\ (TagsComputed /\ user_mode = "Coach") =>
         kpi.high_risk_clients =
            Cardinality({i \in DOMAIN risk_df :
                           Labels(risk_df[i].Risk_Tags)
                             \cap {"High Debt", "Low Savings", "High Stress"}
                               # {}})

C11_Witness ==
    /\ user_mode = "Coach"
    /\ TagsComputed
    /\ TipsShown
    /\ risk_filter = {"High Debt", "High Stress"}
    /\ Len(df) = 2
    /\ Len(filtered_df) = 1
    /\ kpi.high_risk_clients = 1
    /\ Len(risk_factors) = 1
    /\ risk_factors[1].Risk_Factors
         = <<"High Debt", ",", " ", ",", " ", "High Stress">>
    /\ risk_df[1].Risk_Tags = <<"High Debt", ",", " ", "High Stress">>
    /\ tips = <<FindingOfRule(2), FindingOfRule(4)>>

====
